---- MODULE Spec2Model ----
(***************************************************************************)
(* cmdsaw: the subcommand crawler (cmdsaw/discovery.py build_tree), the    *)
(* cached LLM parse (cmdsaw/parsing/llm_parser.py parse_command_help) and  *)
(* the on-disk parse cache (cmdsaw/parsing/cache.py ParseCache).           *)
(*                                                                         *)
(* A command path is a Python string of space-separated tokens.  It is     *)
(* modelled as the sequence of its tokens: f"{p} {c}" is p \o <<c>> for a  *)
(* space-free token c, p.split() is p, and p.count(" ") is Len(p) - 1.     *)
(* JoinPath gives back the string where the code hashes it.                *)
(***************************************************************************)
EXTENDS Naturals, Sequences, FiniteSets, TLC

\* ------------------------------------------------------------- bounds
MaxReports == 4      \* subcommand mentions reported during one crawl, in total
MaxDepthBound == 2   \* max_depth is drawn from 0..MaxDepthBound
MaxConcurrency == 2  \* concurrency is drawn from 1..MaxConcurrency
MaxFlaky == 1        \* parse calls of one crawl in which the parser raises ValidationError
MaxSets == 2         \* ParseCache.set calls in one run of the cache harness
MaxFlags == 2        \* help flags passed to try_help
MaxOdd == 1          \* parser_odd is drawn from 0..MaxOdd

\* ---------------------------------------------------------- constants
Retries == 2         \* retries=2 at both call sites of parse_command_help

RootCmd == "tool"
ModelName == "m1"
\* The subcommand names the parser may report, in Python's string order,
\* and the subcommand lists of one document: none, one name, one name twice,
\* two names in sorted and in unsorted order.
AllNames == <<"a", "b">>
ChildLists == {<<>>, <<"a">>, <<"a", "a">>, <<"a", "b">>, <<"b", "a">>}

\* What run_capture may hand back as the stripped output of a help call.
HelpTexts == {"", "usage"}

\* The subcommand names, and a tool whose every subcommand prints `help`.
Names == {AllNames[i] : i \in 1..Len(AllNames)}
SameHelp(help) == [n \in Names |-> help]

\* What run_capture may hand back for a version flag, as the characters of
\* its first line: nothing, "tool 1.0", "unknown", "v2.3.1", and a line of
\* v, ARABIC-INDIC DIGIT THREE, a dot, ARABIC-INDIC DIGIT FOUR, "-x" and
\* ARABIC-INDIC DIGIT FIVE (a character outside ASCII is written chr(n)).
PlainVersionLine == <<"t", "o", "o", "l", " ", "1", ".", "0">>
VersionLines ==
  { <<>>,
    PlainVersionLine,
    <<"u", "n", "k", "n", "o", "w", "n">>,
    <<"v", "2", ".", "3", ".", "1">>,
    <<"v", "chr(1635)", ".", "chr(1636)", "-", "x", "chr(1637)">> }

\* The options/positionals part of a document the parser returns.
DocShapes == { [options |-> <<"--opt">>, positionals |-> <<"file">>] }

\* Optional values (str | None, dict | None): <<>> is None, <<v>> is v.
None == <<>>
Some(v) == <<v>>

Last(s) == s[Len(s)]

\* ------------------------------------------------------- strings, hash
RECURSIVE JoinPath(_)
JoinPath(tokens) ==
  IF Len(tokens) = 0 THEN ""
  ELSE IF Len(tokens) = 1 THEN tokens[1]
  ELSE tokens[1] \o " " \o JoinPath(Tail(tokens))

\* path.count(" ") of a path of space-free tokens
CountSpaces(path) == Len(path) - 1

\* A variant of Sha256 that only hashes the length of its input.
Sha256OfLength(s) == "sha256(" \o ToString(Len(s)) \o ")"

\* hashlib.sha256(s.encode()).hexdigest(): the digest is taken to be
\* collision free, and is written as a string that names its input.
Sha256(s) == "sha256(" \o s \o ")"

\* ---------------------------------------------------- version numbers
\* A text is a sequence of characters.  An ASCII character is written as
\* itself; any other character is written chr(n), n its code point.
Chr(n) == "chr(" \o ToString(n) \o ")"

\* the characters of the code point ranges <<first, last>> of a set
CharsOf(ranges) == UNION {{Chr(n) : n \in r[1]..r[2]} : r \in ranges}

AsciiDigits == {"0", "1", "2", "3", "4", "5", "6", "7", "8", "9"}

\* the code points above ASCII that \d of a str pattern matches (the decimal
\* digits of every script: Arabic-Indic 1632..1641, Devanagari 2406..2415, ...)
DecimalRanges ==
  {<<1632, 1641>>, <<1776, 1785>>, <<1984, 1993>>, <<2406, 2415>>, <<2534, 2543>>,
   <<2662, 2671>>, <<2790, 2799>>, <<2918, 2927>>, <<3046, 3055>>, <<3174, 3183>>,
   <<3302, 3311>>, <<3430, 3439>>, <<3558, 3567>>, <<3664, 3673>>, <<3792, 3801>>,
   <<3872, 3881>>, <<4160, 4169>>, <<4240, 4249>>, <<6112, 6121>>, <<6160, 6169>>,
   <<6470, 6479>>, <<6608, 6617>>, <<6784, 6793>>, <<6800, 6809>>, <<6992, 7001>>,
   <<7088, 7097>>, <<7232, 7241>>, <<7248, 7257>>, <<42528, 42537>>,
   <<43216, 43225>>, <<43264, 43273>>, <<43472, 43481>>, <<43504, 43513>>,
   <<43600, 43609>>, <<44016, 44025>>, <<65296, 65305>>, <<66720, 66729>>,
   <<68912, 68921>>, <<69734, 69743>>, <<69872, 69881>>, <<69942, 69951>>,
   <<70096, 70105>>, <<70384, 70393>>, <<70736, 70745>>, <<70864, 70873>>,
   <<71248, 71257>>, <<71360, 71369>>, <<71472, 71481>>, <<71904, 71913>>,
   <<72016, 72025>>, <<72784, 72793>>, <<73040, 73049>>, <<73120, 73129>>,
   <<92768, 92777>>, <<92864, 92873>>, <<93008, 93017>>, <<120782, 120831>>,
   <<123200, 123209>>, <<123632, 123641>>, <<125264, 125273>>, <<130032, 130041>>}

\* the code points str.isdigit() accepts and \d does not (superscripts,
\* circled digits, ...)
OtherDigitRanges ==
  {<<178, 179>>, <<185, 185>>, <<4969, 4977>>, <<6618, 6618>>, <<8304, 8304>>,
   <<8308, 8313>>, <<8320, 8329>>, <<9312, 9320>>, <<9332, 9340>>, <<9352, 9360>>,
   <<9450, 9450>>, <<9461, 9469>>, <<9471, 9471>>, <<10102, 10110>>,
   <<10112, 10120>>, <<10122, 10130>>, <<68160, 68163>>, <<69216, 69224>>,
   <<69714, 69722>>, <<127232, 127242>>}

\* utils.py:6, _VERSION_RX: \d+\.\d+(?:\.\d+){0,2}(?:[-+A-Za-z0-9.]*)?
\* Digits is \d; the trailing class spells its digits out and is ASCII only.
Digits == AsciiDigits \cup CharsOf(DecimalRanges)
Letters ==
  {"a", "b", "c", "d", "e", "f", "g", "h", "i", "j", "k", "l", "m", "n", "o", "p",
   "q", "r", "s", "t", "u", "v", "w", "x", "y", "z",
   "A", "B", "C", "D", "E", "F", "G", "H", "I", "J", "K", "L", "M", "N", "O", "P",
   "Q", "R", "S", "T", "U", "V", "W", "X", "Y", "Z"}
TailChars == AsciiDigits \cup Letters \cup {"-", "+", "."}

\* the index after the longest run of characters of `class` that starts at i
RECURSIVE RunEnd(_, _, _)
RunEnd(text, i, class) ==
  IF i <= Len(text) /\ text[i] \in class THEN RunEnd(text, i + 1, class) ELSE i

\* \d+\.\d+ matches at i: a run of digits, a dot, a digit
MatchesAt(text, i) ==
  LET j == RunEnd(text, i, Digits)
  IN j > i /\ j + 1 <= Len(text) /\ text[j] = "." /\ text[j + 1] \in Digits

\* (?:\.\d+) tried at j: the index after a dot and a run of digits, or j
\* itself when there is none
DotDigitsEnd(text, j) ==
  IF j + 1 <= Len(text) /\ text[j] = "." /\ text[j + 1] \in Digits
    THEN RunEnd(text, j + 1, Digits)
    ELSE j

\* the index after the match of _VERSION_RX that starts at i: the two
\* mandatory runs, at most two more dotted runs, then the trailing class
MatchEnd(text, i) ==
  LET whole == RunEnd(text, i, Digits)
      minor == RunEnd(text, whole + 1, Digits)
      third == DotDigitsEnd(text, minor)
      fourth == DotDigitsEnd(text, third)
  IN RunEnd(text, fourth, TailChars)

RECURSIVE Concat(_)
Concat(chars) == IF chars = <<>> THEN "" ELSE Head(chars) \o Concat(Tail(chars))

\* str.isdigit() of the characters with the dots taken out: not empty, all digits
IsDigitChars == Digits \cup CharsOf(OtherDigitRanges)

DigitsAndDots(chars) ==
  /\ \E k \in 1..Len(chars) : chars[k] \in IsDigitChars
  /\ \A k \in 1..Len(chars) : chars[k] \in IsDigitChars \cup {"."}

\* utils.py:81-84, extract_version_number: the leftmost match, without its
\* leading v when the rest is digits and dots.
ExtractVersionNumber(text) ==
  LET starts == {i \in 1..Len(text) : MatchesAt(text, i)}
  IN IF starts = {} THEN None
     ELSE LET i == CHOOSE x \in starts : \A y \in starts : x <= y
              v == SubSeq(text, i, MatchEnd(text, i) - 1)
          IN IF v[1] = "v" /\ DigitsAndDots(Tail(v))
               THEN Some(Concat(Tail(v)))
               ELSE Some(Concat(v))

\* runner.py:91-99, try_version: the first reply that is not empty and holds
\* a version number; lines[k] is the first line of the reply to the k-th flag.
RECURSIVE TryVersion(_)
TryVersion(lines) ==
  IF lines = <<>> THEN None
  ELSE IF Head(lines) # <<>> /\ ExtractVersionNumber(Head(lines)) # None
         THEN ExtractVersionNumber(Head(lines))
         ELSE TryVersion(Tail(lines))

\* ------------------------------------------------------------- ParseCache
\* `version or 'none'`: None and the empty string are both falsy.
VersionOrNone(version) ==
  IF version = None \/ version = Some("") THEN "none" ELSE version[1]

\* ParseCache._key_path: the file name of a key (the root directory, the same
\* for every key, and the ".json" suffix are left to the reader).
KeyPath(command_path, version, model, help_hash) ==
  Sha256(command_path \o "|" \o VersionOrNone(version) \o "|" \o model
         \o "|" \o help_hash)

\* json.dump of a CommandDoc dump: the members in field order, each a
\* <<key, value>> pair; json.load builds the dict back from the pairs.
DocFields == <<"name", "path", "help_text", "options", "positionals", "subcommands">>

JsonDump(data) == [i \in 1..Len(DocFields) |-> <<DocFields[i], data[DocFields[i]]>>]

JsonLoad(text) ==
  [k \in {text[i][1] : i \in 1..Len(text)} |->
     LET i == CHOOSE j \in 1..Len(text) : text[j][1] = k IN text[i][2]]

\* ParseCache.get: the decoded file when it exists, else None.
ParseCacheGet(files, command_path, version, model, help_text) ==
  LET p == KeyPath(command_path, version, model, Sha256(help_text))
  IN IF p \in DOMAIN files THEN Some(JsonLoad(files[p])) ELSE None

\* ParseCache.set: (over)write the file of the key.
ParseCacheSet(files, command_path, version, model, help_text, data) ==
  LET p == KeyPath(command_path, version, model, Sha256(help_text))
  IN [q \in DOMAIN files \cup {p} |-> IF q = p THEN JsonDump(data) ELSE files[q]]

\* ------------------------------------------------------------- documents
\* CommandDoc as the six fields the crawl reads.
MakeDoc(path, help_text, shape, subcommands) ==
  [name |-> Last(path), path |-> path, help_text |-> help_text,
   options |-> shape.options, positionals |-> shape.positionals,
   subcommands |-> subcommands]

\* ----------------------------------------------------------------- state
VARIABLES
  max_depth,     \* build_tree argument
  concurrency,   \* build_tree argument
  use_cache,     \* build_tree argument
  accepts_provider, \* the parse_command_help in use takes the provider keywords
  tool_help,     \* the tool: the text its help invocations print
  tool_version,  \* the tool: the first line its version invocations print
  parser_odd,    \* the parser: in how many calls its document does not echo the call
  sub_help,      \* the tool: the text the help invocations of each subcommand print
  pc,            \* the scheduler's (main thread's) position in build_tree
  error,         \* the exception build_tree raised ("" while none)
  help_text,     \* root help text (discovery.py:200)
  version,       \* root version (discovery.py:201), None or Some(string)
  rootp,         \* the root's parse_command_help call (discovery.py:205)
  visited,       \* visited: Set[str]
  queue,         \* queue: List[tuple[str,int]]
  futures,       \* futures of the current wave: indexes into workers
  workers,       \* every process_one task submitted so far, in submit order
  subdocs,       \* subdocs: Dict[str, CommandDoc]
  diagnostics,   \* ParseDiagnostics
  result,        \* what build_tree returns: None or Some([tool, all_docs, ...])
  cache,         \* the cache directory: file name -> file content
  wave,          \* history: number of the current wave (outer loop iteration)
  reports,       \* history: subcommand mentions the parser has reported
  flaky,         \* history: the paths whose parse has seen a ValidationError
  skipped,       \* history: the queue items popped and skipped
  bin_path,      \* bin_path (discovery.py:190), None until which_or_raise returns
  cache_dir,     \* ParseCache() has run: the cache directory was created (line 193)
  ran,           \* history: run_capture has started a process
  cache_calls,   \* history: the cache_get and cache_set calls parse_command_help made
  stored,        \* cache harness: the entry last stored under each key
  got,           \* cache harness: the last get, None or Some([key, val])
  sets,          \* cache harness: number of set calls made
  th_in,         \* try_help harness: the arguments and the tool's replies
  th_out,        \* try_help harness: None, or Some(what the call returned and ran)
  setter,        \* cache race: a thread inside ParseCache.set
  getter         \* cache race: a thread inside ParseCache.get

crawlVars ==
  <<max_depth, concurrency, use_cache, accepts_provider, tool_help, tool_version, parser_odd, sub_help, pc, error, help_text, version, rootp,
    visited, queue, futures, workers, subdocs, diagnostics, result, wave,
    reports, flaky, skipped, bin_path, cache_dir, ran, cache_calls>>
harnessVars == <<stored, got, sets, th_in, th_out, setter, getter>>
vars == <<crawlVars, cache, harnessVars>>

\* ------------------------------------------------- parse_command_help
\* build_tree calls parse_command_help with the keywords provider, temperature
\* and google_api_key (discovery.py:205-213 and 245-253).  The definition in
\* llm_parser.py:21 declares none of the three, so a call to it raises
\* TypeError before line 42 runs.  The callers, and the tests of _build_model
\* in tests/test_provider_support.py, are written against a definition that
\* declares them; its body is taken to be lines 42-75.  accepts_provider says
\* which of the two definitions a crawl runs with.
SignatureInSrc == FALSE
SignatureOfCallers == TRUE
Signatures == {SignatureInSrc, SignatureOfCallers}

\* One call of parse_command_help is a record: st is "lookup" (before the
\* cache_get of line 44), "invoke" (in the retry loop, attempt = the loop
\* variable, reminders = the reminder lines appended to user_blob) or
\* "finished" (returned, doc = Some(document)).  hit, invoked and failed are
\* history: whether the document came from the cache, how many times
\* structured.invoke ran, and how many of those runs raised ValidationError.
\* A variant of FallbackDoc that carries the root's help text.
FallbackDocRootHelp(command_path, help_t) ==
  [name |-> Last(command_path), path |-> command_path, help_text |-> tool_help,
   options |-> <<>>, positionals |-> <<>>, subcommands |-> <<>>]

\* llm_parser.py:73, the document returned once the retries are used up.
FallbackDoc(command_path, help_t) ==
  [name |-> Last(command_path), path |-> command_path, help_text |-> help_t,
   options |-> <<>>, positionals |-> <<>>, subcommands |-> <<>>]

\* discovery.py:244, what try_help captures for a subcommand path: the text
\* the tool prints for the subcommand the path ends in.
HelpOf(path) == sub_help[Last(path)]

NewParse(path, help_t) ==
  [path |-> path, help_t |-> help_t, st |-> "lookup", attempt |-> 0,
   reminders |-> 0, doc |-> None, hit |-> FALSE, invoked |-> 0, failed |-> 0]

\* llm_parser.py:42-48.  The version argument is always None (line 44).
CacheLookup(p) ==
  IF use_cache
    THEN ParseCacheGet(cache, JoinPath(p.path), None, ModelName, p.help_t)
    ELSE None

\* A variant of AfterLookup that goes to the parser whatever the lookup found.
AfterLookupMiss(p) == [p EXCEPT !.st = "invoke"]

\* llm_parser.py:43-48, a hit returns the validated entry
AfterLookup(p) ==
  LET cached == CacheLookup(p)
  IN IF cached # None
       THEN [p EXCEPT !.st = "finished", !.doc = Some(cached[1]), !.hit = TRUE]
       ELSE [p EXCEPT !.st = "invoke"]

\* llm_parser.py:61-69: structured.invoke returned a valid document.
AfterInvokeOk(p, doc) ==
  [p EXCEPT !.st = "finished", !.doc = Some(doc), !.invoked = @ + 1]

CacheAfterInvokeOk(p, doc) ==
  IF use_cache
    THEN ParseCacheSet(cache, JoinPath(p.path), None, ModelName, p.help_t, doc)
    ELSE cache

\* A variant of CacheAfterFallback that stores the fallback document.
CacheAfterFallbackStored(p) ==
  IF use_cache
    THEN ParseCacheSet(cache, JoinPath(p.path), None, ModelName, p.help_t, p.doc[1])
    ELSE cache

\* llm_parser.py:71-73: the fallback document is returned, cache_set is not
\* called.
CacheAfterFallback(p) == cache

\* History records of the calls of lines 44 and 67: `by` is 0 for the root's
\* parse and the task's index for a worker's; data is Some(dict) for a set.
GetCalls(by, p) ==
  IF use_cache
    THEN {[op |-> "get", by |-> by, path |-> JoinPath(p.path), version |-> None,
           model |-> ModelName, help |-> p.help_t, data |-> None]}
    ELSE {}

SetCalls(by, p, doc) ==
  IF use_cache
    THEN {[op |-> "set", by |-> by, path |-> JoinPath(p.path), version |-> None,
           model |-> ModelName, help |-> p.help_t, data |-> Some(doc)]}
    ELSE {}

\* A variant of RetriesExhausted that gives up one attempt early.
RetriesExhaustedEarly(attempt) == attempt + 1 >= Retries

\* llm_parser.py:70-75: structured.invoke raised ValidationError.
RetriesExhausted(attempt) == attempt >= Retries

AfterValidationError(p) ==
  IF RetriesExhausted(p.attempt)
    THEN [p EXCEPT !.st = "finished",
                   !.doc = Some(FallbackDoc(p.path, p.help_t)),
                   !.invoked = @ + 1, !.failed = @ + 1]
    ELSE [p EXCEPT !.attempt = @ + 1, !.reminders = @ + 1, !.invoked = @ + 1,
                   !.failed = @ + 1]

\* structured.invoke may raise ValidationError in the calls made for at most
\* MaxFlaky paths of a crawl, on any of their attempts.
MayFail(path) == path \in flaky \/ Cardinality(flaky) < MaxFlaky

\* The documents structured.invoke may return for a call.  The name, path
\* and help_text of a document are the parser's own: it echoes what the call
\* passed, or returns a document that differs from the call in one of the
\* three (ForeignName, ForeignPath, ForeignHelp), the latter in at most
\* parser_odd calls of a crawl.  It reports any subcommand list that keeps the crawl's
\* total within MaxReports.
ForeignName(path) == IF Last(path) = "a" THEN "b" ELSE "a"
ForeignPath(path) == IF path = <<RootCmd, "a">> THEN <<RootCmd, "b">> ELSE <<RootCmd, "a">>
ForeignHelp(help) == IF help = "" THEN "usage" ELSE ""

Echoes(p, doc) ==
  doc.name = Last(p.path) /\ doc.path = p.path /\ doc.help_text = p.help_t

\* the calls of the crawl that the parser answered with a document of its own
OddCalls ==
  {i \in 0..Len(workers) :
     LET q == IF i = 0 THEN rootp ELSE workers[i].parse
     IN q.st = "finished" /\ ~q.hit /\ ~Echoes(q, q.doc[1])}

MayDeviate == Cardinality(OddCalls) < parser_odd

DocHeads(p) ==
  {[name |-> Last(p.path), path |-> p.path, help_text |-> p.help_t]} \cup
  (IF MayDeviate
     THEN {[name |-> ForeignName(p.path), path |-> p.path, help_text |-> p.help_t],
           [name |-> Last(p.path), path |-> ForeignPath(p.path), help_text |-> p.help_t],
           [name |-> Last(p.path), path |-> p.path, help_text |-> ForeignHelp(p.help_t)]}
     ELSE {})

ParserResults(p) ==
  { [name |-> head.name, path |-> head.path, help_text |-> head.help_text,
     options |-> shape.options, positionals |-> shape.positionals,
     subcommands |-> subs] :
      head \in DocHeads(p),
      shape \in DocShapes,
      subs \in {cs \in ChildLists : cs = <<>> \/ reports + Len(cs) <= MaxReports} }

\* --------------------------------------------------------- sorted(paths)
\* Python compares the joined strings character by character.  No token used
\* here is a prefix of another and the space sorts below every letter, so the
\* order is the token-wise lexicographic one, with a < b < ... < tool.
TokRank(t) ==
  IF t = RootCmd THEN Len(AllNames) + 1
  ELSE CHOOSE i \in 1..Len(AllNames) : AllNames[i] = t

RECURSIVE PathLess(_, _)
PathLess(p, q) ==
  IF Len(q) = 0 THEN FALSE
  ELSE IF Len(p) = 0 THEN TRUE
  ELSE IF p[1] # q[1] THEN TokRank(p[1]) < TokRank(q[1])
  ELSE PathLess(Tail(p), Tail(q))

RECURSIVE Sorted(_)
Sorted(S) ==
  IF S = {} THEN <<>>
  ELSE LET m == CHOOSE x \in S : \A y \in S \ {x} : PathLess(x, y)
       IN <<m>> \o Sorted(S \ {m})

\* [f(x) for x in seq if keep(x)] for the one filter build_tree uses
RECURSIVE DirectChildren(_)
DirectChildren(paths) ==
  IF paths = <<>> THEN <<>>
  ELSE (IF CountSpaces(Head(paths)) = 1 THEN <<Head(paths)>> ELSE <<>>)
       \o DirectChildren(Tail(paths))

\* ------------------------------------------------------------ build_tree
\* The cache directory as an earlier crawl of the same tool may have left it:
\* empty, or holding the document parsed for "tool a" from the help text the
\* tool prints ("usage"; a tool that prints nothing left no such entry).
EmptyCache == <<>>
SeededCache ==
  ParseCacheSet(EmptyCache, JoinPath(<<RootCmd, "a">>), None, ModelName, "usage",
                MakeDoc(<<RootCmd, "a">>, "usage",
                        [options |-> <<"--opt">>, positionals |-> <<>>], <<"a">>))
CacheSeeds(help) == IF help = "usage" THEN {EmptyCache, SeededCache} ELSE {EmptyCache}

NoParse == NewParse(<<RootCmd>>, "")

Init ==
  /\ max_depth \in 0..MaxDepthBound
  /\ concurrency \in 1..MaxConcurrency
  /\ use_cache = TRUE
  /\ accepts_provider \in Signatures
  /\ tool_help \in HelpTexts
  /\ tool_version \in VersionLines
  /\ parser_odd \in 0..MaxOdd
  /\ cache \in CacheSeeds(tool_help)
  /\ sub_help \in [Names -> HelpTexts]
  /\ parser_odd > 0 =>
       /\ tool_help = "usage" /\ tool_version = PlainVersionLine /\ cache = EmptyCache
       /\ sub_help = SameHelp(tool_help)
  /\ sub_help # SameHelp(tool_help) =>
       tool_help = "usage" /\ tool_version = PlainVersionLine /\ cache = EmptyCache
  /\ pc = "resolve"
  /\ error = ""
  /\ help_text = ""
  /\ version = None
  /\ rootp = NoParse
  /\ visited = {}
  /\ queue = <<>>
  /\ futures = <<>>
  /\ workers = <<>>
  /\ subdocs = <<>>
  /\ diagnostics = [timeouts |-> 0, llm_retries |-> 0, visited_commands |-> 0,
                    version_extracted |-> FALSE]
  /\ result = None
  /\ wave = 0
  /\ reports = 0
  /\ flaky = {}
  /\ skipped = {}
  /\ bin_path = None
  /\ cache_dir = FALSE
  /\ ran = FALSE
  /\ cache_calls = {}
  /\ stored = <<>>
  /\ got = None
  /\ sets = 0
  /\ th_in = None
  /\ th_out = None
  /\ setter = None
  /\ getter = None

\* A variant of CacheDirAfterResolve that builds the cache first.
CacheDirBeforeResolve(found) == use_cache

\* discovery.py:193 is reached only when line 190 has returned
CacheDirAfterResolve(found) == found /\ use_cache

\* discovery.py:189-198: which_or_raise(root_cmd) raises CommandNotFound or
\* returns the binary's path, and then ParseCache() creates the directory.
RootResolve ==
  /\ pc = "resolve"
  /\ \E found \in BOOLEAN :
       /\ IF found
            THEN pc' = "capture" /\ error' = error /\ bin_path' = Some("/bin/" \o RootCmd)
            ELSE pc' = "failed" /\ error' = "CommandNotFound" /\ bin_path' = None
       /\ cache_dir' = CacheDirAfterResolve(found)
  /\ UNCHANGED <<max_depth, concurrency, use_cache, accepts_provider, tool_help, tool_version, parser_odd, sub_help, help_text, version, rootp,
                 visited, queue, futures, workers, subdocs, diagnostics, result,
                 wave, reports, skipped, cache, flaky, ran, cache_calls, harnessVars>>

\* discovery.py:201, try_version([bin_path]).  The tool prints the same
\* line whichever version flag it is run with, so one reply stands for the
\* replies to the candidate flags.
ToolVersion == TryVersion(<<tool_version>>)

\* discovery.py:200-202, try_help and try_version on the root.  run_capture
\* lets subprocess.TimeoutExpired through and nothing in between catches it.
RootCapture ==
  /\ pc = "capture"
  /\ \/ /\ pc' = "failed"
        /\ error' = "TimeoutExpired"
        /\ UNCHANGED <<help_text, version, rootp, diagnostics>>
     \/ /\ help_text' = tool_help
        /\ version' = ToolVersion
        /\ diagnostics' =
             [diagnostics EXCEPT !.version_extracted = (ToolVersion \notin {None, Some("")})]
        /\ rootp' = NewParse(<<RootCmd>>, tool_help)
        /\ pc' = "root_parse"
        /\ error' = error
  /\ ran' = TRUE
  /\ UNCHANGED <<max_depth, concurrency, use_cache, accepts_provider, tool_help, tool_version, parser_odd, sub_help, visited, queue, futures,
                 workers, subdocs, result, wave, reports, skipped, cache,
                 flaky, bin_path, cache_dir, cache_calls, harnessVars>>

\* Subcommand mentions of the document a finished lookup returned.
HitReports(p) == IF p.st = "finished" THEN Len(p.doc[1].subcommands) ELSE 0

\* discovery.py:205 -> llm_parser.py:21 and 42-48: the call raises TypeError,
\* which nothing in build_tree catches, or reaches the cache lookup.
RootLookup ==
  /\ pc = "root_parse" /\ rootp.st = "lookup"
  /\ IF accepts_provider
       THEN /\ rootp' = AfterLookup(rootp)
            /\ reports' = reports + HitReports(rootp')
            /\ cache_calls' = cache_calls \cup GetCalls(0, rootp)
            /\ UNCHANGED <<pc, error>>
       ELSE /\ pc' = "failed"
            /\ error' = "TypeError"
            /\ UNCHANGED <<rootp, reports, cache_calls>>
  /\ UNCHANGED <<max_depth, concurrency, use_cache, accepts_provider, tool_help, tool_version, parser_odd, sub_help, help_text, version,
                 visited, queue, futures, workers, subdocs, diagnostics, result,
                 wave, skipped, cache, flaky, bin_path, cache_dir, ran,
                 harnessVars>>

\* discovery.py:205 -> llm_parser.py:59-75, one iteration of the retry loop of
\* the root's parse: structured.invoke returns a document, which is stored
\* and returned, or raises ValidationError.
RootInvoke ==
  /\ pc = "root_parse" /\ rootp.st = "invoke"
  /\ \/ /\ MayFail(rootp.path)
        /\ rootp' = AfterValidationError(rootp)
        /\ flaky' = flaky \cup {rootp.path}
        /\ cache' = IF rootp'.st = "finished" THEN CacheAfterFallback(rootp') ELSE cache
        /\ UNCHANGED <<reports, cache_calls>>
     \/ \E doc \in ParserResults(rootp) :
          /\ rootp' = AfterInvokeOk(rootp, doc)
          /\ cache' = CacheAfterInvokeOk(rootp, doc)
          /\ cache_calls' = cache_calls \cup SetCalls(0, rootp, doc)
          /\ reports' = reports + Len(doc.subcommands)
          /\ UNCHANGED flaky
  /\ UNCHANGED <<max_depth, concurrency, use_cache, accepts_provider, tool_help, tool_version, parser_odd, sub_help, pc, error, help_text, version,
                 visited, queue, futures, workers, subdocs, diagnostics, result,
                 wave, skipped, bin_path, cache_dir, ran,
                 harnessVars>>

\* A queue item is the code's (name, depth) pair; chain (the subcommand names
\* that lead to it from the root) and enq (the wave during which it was
\* appended, 0 for the root's children) are history.
SeedQueue(subcommands) ==
  [i \in 1..Len(subcommands) |->
     [name |-> <<subcommands[i]>>, depth |-> 1, chain |-> <<subcommands[i]>>,
      enq |-> 0]]

\* discovery.py:215-238 (review_subcommands = False), then the first test of
\* `while queue` at line 261.
RootSeed ==
  /\ pc = "root_parse" /\ rootp.st = "finished"
  /\ visited' = {rootp.doc[1].path}
  /\ queue' = SeedQueue(rootp.doc[1].subcommands)
  /\ subdocs' = <<>>
  /\ wave' = 1
  /\ pc' = IF queue' # <<>> THEN "drain" ELSE "aggregate"
  /\ UNCHANGED <<max_depth, concurrency, use_cache, accepts_provider, tool_help, tool_version, parser_odd, sub_help, error, help_text, version,
                 rootp, futures, workers, diagnostics, result, reports, skipped,
                 cache, flaky, bin_path, cache_dir, ran,
                 cache_calls, harnessVars>>

\* ------------------------------------------------------ the wave loop
\* discovery.py:265, full_path = f"{root_cmd} {name}"
FullPath(name) == <<RootCmd>> \o name

\* Variants of Skip that forget one of its two tests.
SkipNoDepth(full_path, depth) == full_path \in visited
SkipNoVisited(full_path, depth) == depth > max_depth

\* discovery.py:266, the test that skips a popped item
Skip(full_path, depth) == full_path \in visited \/ depth > max_depth

\* A variant of MayPop that lets one more task into a wave.
MayPopTwo == queue # <<>> /\ Len(futures) < concurrency + 1

\* A variant of MayPop that forgets the concurrency limit.
MayPopUnbounded == queue # <<>>

\* discovery.py:263, the inner loop's condition
MayPop == queue # <<>> /\ Len(futures) < concurrency

\* A variant of ChildDepth that counts the waves run so far.
ChildDepthByWave(path) == wave + 1

\* discovery.py:275, the item appended for a child of the document of `path`
ChildName(path, child) == path \o <<child>>
ChildDepth(path) == CountSpaces(path) + 1

\* A process_one task.  st: "capture" (lines 242-244 not yet run), "parse"
\* (inside parse_command_help, see parse), "raised" (ended with an exception,
\* err).  collected: as_completed has handed the future to line 271.
NewWorker(full_path, item) ==
  [path |-> full_path, depth |-> item.depth, chain |-> item.chain,
   enq |-> item.enq, wave |-> wave, st |-> "capture", err |-> "",
   collected |-> FALSE, parse |-> NewParse(full_path, "")]

WorkerDone(w) == w.st = "raised" \/ (w.st = "parse" /\ w.parse.st = "finished")

\* discovery.py:264-269, one iteration of the inner loop
Pop ==
  /\ pc = "drain" /\ MayPop
  /\ LET item == Head(queue)
         full_path == FullPath(item.name)
     IN /\ queue' = Tail(queue)
        /\ IF Skip(full_path, item.depth)
             THEN /\ skipped' = skipped \cup
                       {[path |-> full_path, depth |-> item.depth, wave |-> wave]}
                  /\ UNCHANGED <<visited, futures, workers>>
             ELSE /\ visited' = visited \cup {full_path}
                  /\ workers' = Append(workers, NewWorker(full_path, item))
                  /\ futures' = Append(futures, Len(workers) + 1)
                  /\ UNCHANGED skipped
  /\ UNCHANGED <<max_depth, concurrency, use_cache, accepts_provider, tool_help, tool_version, parser_odd, sub_help, pc, error, help_text, version,
                 rootp, subdocs, diagnostics, result, wave, reports, cache,
                 flaky, bin_path, cache_dir, ran,
                 cache_calls, harnessVars>>

\* discovery.py:263 false: on to `for fut in as_completed(futures)`
DrainEnd ==
  /\ pc = "drain" /\ ~MayPop
  /\ pc' = "collect"
  /\ UNCHANGED <<max_depth, concurrency, use_cache, accepts_provider, tool_help, tool_version, parser_odd, sub_help, error, help_text, version,
                 rootp, visited, queue, futures, workers, subdocs, diagnostics,
                 result, wave, reports, skipped, cache, flaky, bin_path, cache_dir, ran,
                 cache_calls, harnessVars>>

\* A variant of WorkerStart in which the task counts itself in the diagnostics.
WorkerStartCounting(i) ==
  /\ workers[i].st = "capture"
  /\ \/ \E e \in {"CommandNotFound", "TimeoutExpired"} :
          workers' = [workers EXCEPT ![i].st = "raised", ![i].err = e]
     \/ workers' = [workers EXCEPT
                      ![i].st = "parse",
                      ![i].parse = NewParse(workers[i].path, HelpOf(workers[i].path))]
  /\ diagnostics' = [diagnostics EXCEPT !.visited_commands = @ + 1]
  /\ UNCHANGED <<max_depth, concurrency, use_cache, accepts_provider, tool_help, tool_version, parser_odd, sub_help, pc, error, help_text, version,
                 rootp, visited, queue, futures, subdocs, result,
                 wave, skipped, cache, flaky, bin_path, cache_dir, ran,
                 reports, cache_calls, harnessVars>>

\* discovery.py:242-244: which_or_raise and try_help inside a worker; either
\* may raise, else the task goes on to call parse_command_help with the help
\* text it captured for its own path.
WorkerStart(i) ==
  /\ workers[i].st = "capture"
  /\ \/ \E e \in {"CommandNotFound", "TimeoutExpired"} :
          workers' = [workers EXCEPT ![i].st = "raised", ![i].err = e]
     \/ workers' = [workers EXCEPT
                      ![i].st = "parse",
                      ![i].parse = NewParse(workers[i].path, HelpOf(workers[i].path))]
  /\ UNCHANGED <<max_depth, concurrency, use_cache, accepts_provider, tool_help, tool_version, parser_odd, sub_help, pc, error, help_text, version,
                 rootp, visited, queue, futures, subdocs, diagnostics, result,
                 wave, skipped, cache, flaky, bin_path, cache_dir, ran,
                 reports, cache_calls, harnessVars>>

\* discovery.py:245 -> llm_parser.py:21 and 42-48: the call raises TypeError,
\* which ends the task, or reaches the cache lookup.
WorkerLookup(i) ==
  /\ workers[i].st = "parse" /\ workers[i].parse.st = "lookup"
  /\ IF accepts_provider
       THEN /\ workers' = [workers EXCEPT ![i].parse = AfterLookup(workers[i].parse)]
            /\ reports' = reports + HitReports(workers'[i].parse)
            /\ cache_calls' = cache_calls \cup GetCalls(i, workers[i].parse)
       ELSE /\ workers' = [workers EXCEPT ![i].st = "raised", ![i].err = "TypeError"]
            /\ UNCHANGED <<reports, cache_calls>>
  /\ UNCHANGED <<max_depth, concurrency, use_cache, accepts_provider, tool_help, tool_version, parser_odd, sub_help, pc, error, help_text, version,
                 rootp, visited, queue, futures, subdocs, diagnostics, result,
                 wave, skipped, cache, flaky, bin_path, cache_dir, ran,
                 harnessVars>>

\* discovery.py:245 -> llm_parser.py:59-75, one iteration of the retry loop of
\* a worker's parse
WorkerInvoke(i) ==
  /\ workers[i].st = "parse" /\ workers[i].parse.st = "invoke"
  /\ \/ /\ MayFail(workers[i].path)
        /\ workers' = [workers EXCEPT ![i].parse = AfterValidationError(workers[i].parse)]
        /\ flaky' = flaky \cup {workers[i].path}
        /\ cache' = IF workers'[i].parse.st = "finished"
                      THEN CacheAfterFallback(workers'[i].parse) ELSE cache
        /\ UNCHANGED <<reports, cache_calls>>
     \/ \E doc \in ParserResults(workers[i].parse) :
          /\ workers' = [workers EXCEPT ![i].parse = AfterInvokeOk(workers[i].parse, doc)]
          /\ cache' = CacheAfterInvokeOk(workers[i].parse, doc)
          /\ cache_calls' = cache_calls \cup SetCalls(i, workers[i].parse, doc)
          /\ reports' = reports + Len(doc.subcommands)
          /\ UNCHANGED flaky
  /\ UNCHANGED <<max_depth, concurrency, use_cache, accepts_provider, tool_help, tool_version, parser_odd, sub_help, pc, error, help_text, version,
                 rootp, visited, queue, futures, subdocs, diagnostics, result,
                 wave, skipped, bin_path, cache_dir, ran,
                 harnessVars>>

\* discovery.py:274-275, the items appended for the children of a document
ChildItems(path, doc, chain) ==
  [i \in 1..Len(doc.subcommands) |->
     [name |-> ChildName(path, doc.subcommands[i]), depth |-> ChildDepth(path),
      chain |-> Append(chain, doc.subcommands[i]), enq |-> wave]]

\* A variant of CountVisit that counts every result twice.
CountVisitTwice(d) == [d EXCEPT !.visited_commands = @ + 2]

\* discovery.py:273, diagnostics.visited_commands += 1
CountVisit(d) == [d EXCEPT !.visited_commands = @ + 1]

\* discovery.py:272, subdocs[path] = doc
PutDoc(docs, path, doc) ==
  [k \in DOMAIN docs \cup {path} |-> IF k = path THEN doc ELSE docs[k]]

\* discovery.py:270-275, one iteration of the as_completed loop: fut.result()
\* either returns (path, doc) or re-raises the worker's exception, which leaves
\* the loop and enters ThreadPoolExecutor.__exit__.
Collect ==
  /\ pc = "collect"
  /\ \E j \in 1..Len(futures) :
       LET i == futures[j]
           w == workers[i]
       IN /\ WorkerDone(w) /\ ~w.collected
          /\ workers' = [workers EXCEPT ![i].collected = TRUE]
          /\ IF w.st = "raised"
               THEN /\ pc' = "unwind"
                    /\ error' = w.err
                    /\ UNCHANGED <<subdocs, diagnostics, queue>>
               ELSE /\ subdocs' = PutDoc(subdocs, w.path, w.parse.doc[1])
                    /\ diagnostics' = CountVisit(diagnostics)
                    /\ queue' = queue \o ChildItems(w.path, w.parse.doc[1], w.chain)
                    /\ UNCHANGED <<pc, error>>
  /\ UNCHANGED <<max_depth, concurrency, use_cache, accepts_provider, tool_help, tool_version, parser_odd, sub_help, help_text, version, rootp,
                 visited, futures, result, wave, reports, skipped, cache,
                 flaky, bin_path, cache_dir, ran,
                 cache_calls, harnessVars>>

\* A variant of WaveJoined that returns at the first completed future.
WaveJoinedFirst ==
  futures = <<>> \/ \E j \in 1..Len(futures) : workers[futures[j]].collected

\* as_completed is exhausted once every future of the wave has been handed out
WaveJoined == \A j \in 1..Len(futures) : workers[futures[j]].collected

\* A variant of AfterWave that never leaves the loop.
AfterWaveAgain(q) == "drain"

\* discovery.py:261, `while queue`: another wave, or on to line 277
AfterWave(q) == IF q # <<>> THEN "drain" ELSE "aggregate"

\* discovery.py:270 exhausted, then the test of `while queue` at line 261
WaveEnd ==
  /\ pc = "collect" /\ WaveJoined
  /\ pc' = AfterWave(queue)
  /\ IF queue # <<>>
       THEN futures' = <<>> /\ wave' = wave + 1
       ELSE UNCHANGED <<futures, wave>>
  /\ UNCHANGED <<max_depth, concurrency, use_cache, accepts_provider, tool_help, tool_version, parser_odd, sub_help, error, help_text, version,
                 rootp, visited, queue, workers, subdocs, diagnostics, result,
                 reports, skipped, cache, flaky, bin_path, cache_dir, ran,
                 cache_calls, harnessVars>>

\* ThreadPoolExecutor.__exit__ is shutdown(wait=True): the exception leaves
\* build_tree only once every submitted worker has ended.
Unwind ==
  /\ pc = "unwind"
  /\ \A i \in 1..Len(workers) : WorkerDone(workers[i])
  /\ pc' = "failed"
  /\ UNCHANGED <<max_depth, concurrency, use_cache, accepts_provider, tool_help, tool_version, parser_odd, sub_help, error, help_text, version,
                 rootp, visited, queue, futures, workers, subdocs, diagnostics,
                 result, wave, reports, skipped, cache, flaky, bin_path, cache_dir, ran,
                 cache_calls, harnessVars>>

\* A variant of ToolSubcommands that keeps the nodes of every depth.
ToolSubcommandsAll(docs) ==
  LET ks == Sorted(DOMAIN docs)
  IN [i \in 1..Len(ks) |-> docs[ks[i]]]

\* discovery.py:277-289
ToolSubcommands(docs) ==
  LET ks == DirectChildren(Sorted(DOMAIN docs))
  IN [i \in 1..Len(ks) |-> docs[ks[i]]]

AllDocs(root_doc, docs) ==
  LET ks == Sorted(DOMAIN docs)
  IN <<root_doc>> \o [i \in 1..Len(ks) |-> docs[ks[i]]]

Aggregate ==
  /\ pc = "aggregate"
  /\ result' = Some([tool |-> [command |-> RootCmd, version |-> version,
                               help_text |-> help_text,
                               options |-> rootp.doc[1].options,
                               positionals |-> rootp.doc[1].positionals,
                               subcommands |-> ToolSubcommands(subdocs)],
                     diagnostics |-> diagnostics,
                     all_docs |-> AllDocs(rootp.doc[1], subdocs)])
  /\ pc' = "done"
  /\ UNCHANGED <<max_depth, concurrency, use_cache, accepts_provider, tool_help, tool_version, parser_odd, sub_help, error, help_text, version,
                 rootp, visited, queue, futures, workers, subdocs, diagnostics,
                 wave, reports, skipped, cache, flaky, bin_path, cache_dir, ran,
                 cache_calls, harnessVars>>

Next ==
  \/ RootResolve
  \/ RootCapture
  \/ RootLookup
  \/ RootInvoke
  \/ RootSeed
  \/ Pop
  \/ DrainEnd
  \/ \E i \in 1..Len(workers) : WorkerStart(i)
  \/ \E i \in 1..Len(workers) : WorkerLookup(i)
  \/ \E i \in 1..Len(workers) : WorkerInvoke(i)
  \/ Collect
  \/ WaveEnd
  \/ Unwind
  \/ Aggregate

Spec == Init /\ [][Next]_vars

\* ------------------------------------------------- the cache on its own
\* ParseCache driven directly: any set and get calls, in any order, on a
\* directory that starts empty.  The crawl's variables stay idle.
HarnessKeys ==
  [path : {"tool", "tool a"}, version : {None, Some("none"), Some("1.0")},
   model : {"m1", "m2"}, help : {"", "usage"}]

HarnessEntries ==
  { MakeDoc(<<"tool", "a">>, "usage",
            [options |-> <<"--opt">>, positionals |-> <<"file">>], <<"b">>),
    FallbackDoc(<<"tool", "a">>, "") }

HarnessInit ==
  /\ max_depth = 0
  /\ concurrency = 1
  /\ use_cache = TRUE
  /\ accepts_provider = SignatureOfCallers
  /\ tool_help = ""
  /\ tool_version = <<>>
  /\ parser_odd = 0
  /\ sub_help = SameHelp(tool_help)
  /\ cache = EmptyCache
  /\ pc = "harness"
  /\ error = ""
  /\ help_text = ""
  /\ version = None
  /\ rootp = NoParse
  /\ visited = {}
  /\ queue = <<>>
  /\ futures = <<>>
  /\ workers = <<>>
  /\ subdocs = <<>>
  /\ diagnostics = [timeouts |-> 0, llm_retries |-> 0, visited_commands |-> 0,
                    version_extracted |-> FALSE]
  /\ result = None
  /\ wave = 0
  /\ reports = 0
  /\ flaky = {}
  /\ skipped = {}
  /\ bin_path = None
  /\ cache_dir = FALSE
  /\ ran = FALSE
  /\ cache_calls = {}
  /\ stored = <<>>
  /\ got = None
  /\ sets = 0
  /\ th_in = None
  /\ th_out = None
  /\ setter = None
  /\ getter = None

\* cache.set(k.path, k.version, k.model, k.help, e)
HarnessSet ==
  /\ pc = "harness" /\ sets < MaxSets
  /\ \E k \in HarnessKeys, e \in HarnessEntries :
       /\ cache' = ParseCacheSet(cache, k.path, k.version, k.model, k.help, e)
       /\ stored' = [x \in DOMAIN stored \cup {k} |-> IF x = k THEN e ELSE stored[x]]
  /\ sets' = sets + 1
  /\ got' = None
  /\ UNCHANGED <<crawlVars, th_in, th_out, setter, getter>>

\* cache.get(k.path, k.version, k.model, k.help)
HarnessGet ==
  /\ pc = "harness"
  /\ \E k \in HarnessKeys :
       got' = Some([key |-> k,
                    val |-> ParseCacheGet(cache, k.path, k.version, k.model, k.help)])
  /\ UNCHANGED <<crawlVars, cache, stored, sets, th_in, th_out, setter, getter>>

HarnessNext == HarnessSet \/ HarnessGet

CacheSpec == HarnessInit /\ [][HarnessNext]_vars

\* The worker and scheduler threads all get to run: the pool has `concurrency`
\* threads and a wave submits at most that many tasks, so every submitted task
\* has a thread of its own, and nothing in the loop blocks except the join.
\* Termination is checked for a tool that prints help, crawled with a cache
\* directory that starts empty.
FairInit ==
  /\ Init /\ tool_help = "usage" /\ cache = EmptyCache
  /\ tool_version = PlainVersionLine /\ parser_odd = 0
  /\ sub_help = SameHelp(tool_help)

FairSpec == FairInit /\ [][Next]_vars /\ WF_vars(Next)

\* ================================================================ claims
Workers == {workers[i] : i \in 1..Len(workers)}
Collected == {w \in Workers : w.collected /\ w.st = "parse"}
\* every iteration of the retry loop raised ValidationError
Exhausted(p) == p.failed = Retries + 1

\* C1: no task is ever submitted for a node deeper than max_depth, whether
\* depth is the number the scheduler carries with the item or the number of
\* subcommand names that lead to the node from the root.
C1_DepthBound ==
  \A w \in Workers : w.depth <= max_depth /\ Len(w.chain) <= max_depth

\* C1 witness: a node at the limit was processed and a deeper one was popped
\* and dropped for its depth alone.
C1_Witness ==
  /\ \E w \in Workers : w.depth = max_depth
  /\ \E s \in skipped : s.depth > max_depth /\ s.path \notin visited

\* C2: no two submitted tasks have the same full path.
C2_DispatchedOnce ==
  \A i, j \in 1..Len(workers) : workers[i].path = workers[j].path => i = j

\* C2 witness: an item was popped and dropped because its path, within the
\* depth limit, had already been submitted.
C2_Witness ==
  \E s \in skipped : s.depth <= max_depth /\ \E w \in Workers : w.path = s.path

\* C3: every processed node's path is the root command followed by the names
\* that lead to it from the root.
C3_PathIsChain ==
  \A w \in Workers : w.path = <<RootCmd>> \o w.chain

\* C4: while the scheduler pops items, every task of an earlier wave has
\* completed and been collected, and every submitted task was in the queue
\* before its wave started.
C4_WaveBarrier ==
  /\ pc = "drain" =>
       \A w \in Workers : w.wave < wave => WorkerDone(w) /\ w.collected
  /\ \A w \in Workers : w.wave <= wave /\ w.enq < w.wave

\* C4 witness: the second wave pops a child that a task of a two-task first
\* wave reported.
C4_Witness ==
  /\ pc = "drain" /\ wave = 2
  /\ Cardinality({w \in Workers : w.wave = 1}) = 2
  /\ \E w \in Workers : w.wave = 2 /\ w.enq = 1

\* C5: when the crawl has returned, a node whose every parse attempt raised
\* ValidationError is in the result with its name, its path and the help text
\* the tool prints for that node (for the root, the root's) and with nothing
\* else, and every other collected node is in the result too.
C5_FallbackKept ==
  pc = "done" =>
    /\ \A w \in Collected :
         /\ w.path \in DOMAIN subdocs
         /\ \E j \in 1..Len(result[1].all_docs) : result[1].all_docs[j] = subdocs[w.path]
         /\ Exhausted(w.parse) =>
              subdocs[w.path] =
                [name |-> Last(w.path), path |-> w.path,
                 help_text |-> sub_help[Last(w.path)],
                 options |-> <<>>, positionals |-> <<>>, subcommands |-> <<>>]
    /\ Exhausted(rootp) =>
         result[1].all_docs[1] =
           [name |-> RootCmd, path |-> <<RootCmd>>, help_text |-> tool_help,
            options |-> <<>>, positionals |-> <<>>, subcommands |-> <<>>]
    /\ Cardinality(DOMAIN subdocs) = Cardinality(Collected)

\* C5 witness: a crawl returned with a degraded node, whose help text is not
\* the root's, beside a parsed one.
C5_Witness ==
  /\ pc = "done" /\ tool_help = "usage"
  /\ \E w \in Collected : Exhausted(w.parse) /\ sub_help[Last(w.path)] # tool_help
  /\ \E w \in Collected : ~Exhausted(w.parse) /\ w.parse.doc[1].options # <<>>

\* C6: a help or version invocation that runs into its timeout never makes
\* build_tree fail.
C6_TimeoutNotFatal ==
  ~(pc \in {"unwind", "failed"} /\ error = "TimeoutExpired")

\* retries performed by one call: the invocations after the first
RECURSIVE SumRetries(_)
SumRetries(ws) ==
  IF ws = <<>> THEN 0 ELSE Head(ws).parse.attempt + SumRetries(Tail(ws))

\* C7: the llm_retries counter of the returned diagnostics is the number of
\* retries the crawl's parse calls performed.
C7_RetriesCounted ==
  pc = "done" =>
    result[1].diagnostics.llm_retries = rootp.attempt + SumRetries(workers)

\* C8: a get returns the entry last stored under its four arguments, whatever
\* was stored under other arguments in between.
C8_SetThenGet ==
  (got # None /\ got[1].key \in DOMAIN stored) =>
    got[1].val = Some(stored[got[1].key])

KeyFields == {"path", "version", "model", "help"}
DiffersInOne(k1, k2) == Cardinality({f \in KeyFields : k1[f] # k2[f]}) = 1

\* C9: after a single set, a get whose arguments differ from the stored ones
\* in exactly one component is a miss.
C9_OtherKeyMisses ==
  (sets = 1 /\ got # None) =>
    \A k \in DOMAIN stored : DiffersInOne(got[1].key, k) => got[1].val = None

\* C10: every crawl ends: build_tree raises, or it returns a result with the
\* queue empty.
C10_Terminates ==
  <>(pc = "failed" \/ (pc = "done" /\ queue = <<>> /\ result # None))

\* C10 witness: a crawl returned although a node listed its own name: the
\* item of the repeated name was dropped for its depth.
C10_Witness ==
  /\ pc = "done" /\ max_depth >= 1
  /\ \E w \in Collected :
       /\ \E i \in 1..Len(w.parse.doc[1].subcommands) :
            w.parse.doc[1].subcommands[i] = Last(w.path)
       /\ \E s \in skipped :
            s.path = FullPath(ChildName(w.path, Last(w.path))) /\ s.depth > max_depth

\* ---------------------------------------------------------------- C11
\* The paths a crawl has to process, from the returned documents alone: the
\* root's children, and the children of every processed node whose path has
\* at most max_depth tokens (the depth line 275 gives them is that number),
\* less the path the root's document carries, which line 215 puts into the
\* visited set.  It does not refer to concurrency, to waves or to the order in
\* which workers complete.
RootKids ==
  IF 1 <= max_depth
    THEN {FullPath(<<rootp.doc[1].subcommands[i]>>) :
            i \in 1..Len(rootp.doc[1].subcommands)} \ {rootp.doc[1].path}
    ELSE {}

KidsOf(p) ==
  IF Len(p) <= max_depth
    THEN {FullPath(ChildName(p, subdocs[p].subcommands[i])) :
            i \in 1..Len(subdocs[p].subcommands)} \ {rootp.doc[1].path}
    ELSE {}

RECURSIVE Reach(_)
Reach(S) ==
  LET N == S \cup UNION {KidsOf(p) : p \in S \cap DOMAIN subdocs}
  IN IF N = S THEN S ELSE Reach(N)

\* C11: the set of processed paths and the ordered child list of the returned
\* tool document are determined by the documents and max_depth alone, so they
\* are the same for every concurrency and every completion order.
C11_Deterministic ==
  pc = "done" =>
    /\ DOMAIN subdocs = Reach(RootKids)
    /\ LET ks == DirectChildren(Sorted(Reach(RootKids)))
       IN result[1].tool.subcommands = [i \in 1..Len(ks) |-> subdocs[ks[i]]]

\* C11 witness: a crawl returned in which two workers of one wave completed
\* in the reverse of their submission order, as the order of their children's
\* tasks shows.
C11_Witness ==
  /\ pc = "done" /\ concurrency >= 2
  /\ \E i, j, k, l \in 1..Len(workers) :
       /\ i < j /\ k < l
       /\ workers[i].wave = workers[j].wave
       /\ Len(workers[k].chain) = Len(workers[j].chain) + 1
       /\ Len(workers[l].chain) = Len(workers[i].chain) + 1
       /\ SubSeq(workers[k].chain, 1, Len(workers[j].chain)) = workers[j].chain
       /\ SubSeq(workers[l].chain, 1, Len(workers[i].chain)) = workers[i].chain

\* ---------------------------------------------------------------- C12
\* the document collected for the node of path p, and the place of p among
\* the paths of S in ascending order
DocAt(p) == (CHOOSE w \in Collected : w.path = p).parse.doc[1]
Rank(p, S) == Cardinality({q \in S : PathLess(q, p)}) + 1

\* C12: the returned tool document lists exactly the completed nodes whose
\* path is the root and one more token, in ascending order of path, and the
\* flattened list is the root document followed by every completed node in
\* ascending order of path.
C12_SortedChildren ==
  pc = "done" =>
    LET subs == result[1].tool.subcommands
        rest == Tail(result[1].all_docs)
        direct == {w.path : w \in {x \in Collected : CountSpaces(x.path) = 1}}
        all == {w.path : w \in Collected}
    IN /\ Len(subs) = Cardinality(direct)
       /\ \A p \in direct : subs[Rank(p, direct)] = DocAt(p)
       /\ Head(result[1].all_docs) = rootp.doc[1]
       /\ Len(rest) = Cardinality(all)
       /\ \A p \in all : rest[Rank(p, all)] = DocAt(p)

\* C12 witness: a crawl returned two direct children that were processed in
\* descending order of path, and a deeper node.
C12_Witness ==
  /\ pc = "done"
  /\ Len(result[1].tool.subcommands) = 2
  /\ Len(result[1].all_docs) > 3
  /\ \E i, j \in 1..Len(workers) :
       /\ i < j /\ CountSpaces(workers[i].path) = 1
       /\ PathLess(workers[j].path, workers[i].path)

\* ---------------------------------------------------------------- C13
Lists(w, c) ==
  \E i \in 1..Len(w.parse.doc[1].subcommands) : w.parse.doc[1].subcommands[i] = c

\* C13: when two different completed nodes list the same child name, the two
\* queue items have the same full path and at most one task is submitted for
\* that child.
C13_SiblingsCollapse ==
  \A w1, w2 \in Collected :
    \A i \in 1..Len(AllNames) :
      (w1.path # w2.path /\ Lists(w1, AllNames[i]) /\ Lists(w2, AllNames[i])) =>
        /\ FullPath(ChildName(w1.path, AllNames[i])) =
             FullPath(ChildName(w2.path, AllNames[i]))
        /\ Cardinality({w \in Workers :
                          w.chain \in {Append(w1.chain, AllNames[i]),
                                       Append(w2.chain, AllNames[i])}}) <= 1

\* ---------------------------------------------------------------- C14
\* C14: when build_tree has failed without a resolved root binary, the error
\* is CommandNotFound, no process was run, the cache directory was neither
\* created nor written, the parser was never called and nothing is returned.
C14_RootNotFound ==
  (pc = "failed" /\ bin_path = None) =>
    /\ error = "CommandNotFound"
    /\ ~ran
    /\ ~cache_dir /\ cache \in CacheSeeds(tool_help)
    /\ rootp = NoParse /\ workers = <<>> /\ reports = 0
    /\ result = None

\* C14 witness: the root executable was not found and build_tree failed.
C14_Witness ==
  pc = "failed" /\ bin_path = None /\ error = "CommandNotFound" /\ use_cache

\* ------------------------------------------------- try_help on its own
\* runner.py try_help as a function of its arguments and of what the tool
\* prints: replies maps an argv to what run_capture returns for it, the
\* stripped output and the exit code.
HelpFlagNames == {"--help", "-h", "help"}
HelpFormats ==
  {"subcommand-help", "help-subcommand", "tool-subcommand", "subcommand-only", "other"}
HelpPaths == {<<"tool">>, <<"tool", "a">>, <<"tool", "a", "b">>}
Replies ==
  {[out |-> "", code |-> 0], [out |-> "usage", code |-> 0], [out |-> "usage", code |-> 2]}

SeqsUpTo(S, n) == UNION {[1..k -> S] : k \in 0..n}

\* A variant of HelpArgv that appends the flag whatever the format.
HelpArgvAppend(command_path, format, hf) == command_path \o <<hf>>

\* runner.py:32-64, the cmdline built for one help flag
HelpArgv(command_path, format, hf) ==
  IF Len(command_path) = 1 THEN command_path \o <<hf>>
  ELSE IF format = "help-subcommand"
    THEN <<command_path[1]>> \o <<hf>> \o Tail(command_path)
  ELSE IF format = "tool-subcommand" THEN command_path
  ELSE IF format = "subcommand-only" THEN Tail(command_path)
  ELSE command_path \o <<hf>>

\* A variant of GotOutput that also wants a zero exit code.
GotOutputAndZero(r) == r.out # "" /\ r.code = 0

\* runner.py:39 and 67, `if out:`
GotOutput(r) == r.out # ""

\* runner.py:33-40 and 46-70, the loop over help_flags from the flag after
\* those already tried; calls are the invocations made so far.
RECURSIVE TryHelpFrom(_, _, _, _, _)
TryHelpFrom(command_path, help_flags, format, replies, calls) ==
  IF help_flags = <<>> THEN [out |-> "", code |-> 1, calls |-> calls]
  ELSE LET cmdline == HelpArgv(command_path, format, Head(help_flags))
           r == replies[cmdline]
       IN IF GotOutput(r)
            THEN [out |-> r.out, code |-> r.code, calls |-> Append(calls, cmdline)]
            ELSE TryHelpFrom(command_path, Tail(help_flags), format, replies,
                             Append(calls, cmdline))

TryHelp(command_path, help_flags, format, replies) ==
  TryHelpFrom(command_path, help_flags, format, replies, <<>>)

HelpInputs ==
  UNION { UNION { UNION {
    { [command_path |-> cp, help_flags |-> fl, format |-> fm, replies |-> rp] :
        rp \in [{HelpArgv(cp, fm, fl[i]) : i \in 1..Len(fl)} -> Replies] } :
      fm \in HelpFormats } : fl \in SeqsUpTo(HelpFlagNames, MaxFlags) } : cp \in HelpPaths }
HelpInit ==
  /\ max_depth = 0
  /\ concurrency = 1
  /\ use_cache = TRUE
  /\ accepts_provider = SignatureOfCallers
  /\ tool_help = ""
  /\ tool_version = <<>>
  /\ parser_odd = 0
  /\ sub_help = SameHelp(tool_help)
  /\ cache = EmptyCache
  /\ pc = "try_help"
  /\ error = ""
  /\ help_text = ""
  /\ version = None
  /\ rootp = NoParse
  /\ visited = {}
  /\ queue = <<>>
  /\ futures = <<>>
  /\ workers = <<>>
  /\ subdocs = <<>>
  /\ diagnostics = [timeouts |-> 0, llm_retries |-> 0, visited_commands |-> 0,
                    version_extracted |-> FALSE]
  /\ result = None
  /\ wave = 0
  /\ reports = 0
  /\ flaky = {}
  /\ skipped = {}
  /\ bin_path = None
  /\ cache_dir = FALSE
  /\ ran = FALSE
  /\ cache_calls = {}
  /\ stored = <<>>
  /\ got = None
  /\ sets = 0
  /\ th_in \in HelpInputs
  /\ th_out = None
  /\ setter = None
  /\ getter = None

\* try_help(th_in.command_path, th_in.help_flags, subcommand_help_format=th_in.format)
TryHelpCall ==
  /\ pc = "try_help" /\ th_out = None
  /\ th_out' = Some(TryHelp(th_in.command_path, th_in.help_flags, th_in.format,
                            th_in.replies))
  /\ UNCHANGED <<crawlVars, cache, stored, got, sets, th_in, setter, getter>>

HelpNext == TryHelpCall

HelpSpec == HelpInit /\ [][HelpNext]_vars

\* ---------------------------------------------------------------- C15
\* C15: try_help runs one invocation per flag, in the order of the flag list,
\* and stops at the first whose output is not empty, returning that output
\* and its exit code; when every output is empty, or there is no flag, it has
\* run them all and returns ("", 1).
C15_FirstNonEmpty ==
  th_out # None =>
    LET r == th_out[1]
        n == Len(r.calls)
        rep(i) == th_in.replies[r.calls[i]]
    IN /\ n <= Len(th_in.help_flags)
       /\ \A i \in 1..n :
            r.calls[i] = HelpArgv(th_in.command_path, th_in.format, th_in.help_flags[i])
       /\ \A i \in 1..n - 1 : rep(i).out = ""
       /\ IF n > 0 /\ rep(n).out # ""
            THEN r.out = rep(n).out /\ r.code = rep(n).code
            ELSE n = Len(th_in.help_flags) /\ r.out = "" /\ r.code = 1

\* C15 witness: the first flag printed nothing, the second printed a usage
\* text with a non-zero exit code, and the call returned both.
C15_Witness ==
  /\ th_out # None
  /\ Len(th_in.help_flags) = 2 /\ Len(th_out[1].calls) = 2
  /\ th_out[1].out = "usage" /\ th_out[1].code = 2

\* ---------------------------------------------------------------- C16
\* C16: the argv of every invocation follows the format: for a root path the
\* flag is appended whatever the format; otherwise 'subcommand-help' appends
\* the flag, 'help-subcommand' puts it right after the base command,
\* 'tool-subcommand' runs the tokens alone and 'subcommand-only' runs the
\* subcommand tokens alone.
C16_ArgvByFormat ==
  th_out # None =>
    \A i \in 1..Len(th_out[1].calls) :
      LET cp == th_in.command_path
          hf == th_in.help_flags[i]
          argv == th_out[1].calls[i]
          subs == SubSeq(cp, 2, Len(cp))
      IN IF Len(cp) = 1 THEN argv = <<cp[1], hf>>
         ELSE /\ th_in.format = "subcommand-help" =>
                   /\ Len(argv) = Len(cp) + 1
                   /\ SubSeq(argv, 1, Len(cp)) = cp /\ argv[Len(argv)] = hf
              /\ th_in.format = "help-subcommand" =>
                   /\ Len(argv) = Len(cp) + 1
                   /\ argv[1] = cp[1] /\ argv[2] = hf
                   /\ SubSeq(argv, 3, Len(argv)) = subs
              /\ th_in.format = "tool-subcommand" => argv = cp
              /\ th_in.format = "subcommand-only" => argv = subs

\* C16 witness: a nested path was run in the 'help-subcommand' format and a
\* root path was run with a format other than the default.
C16_Witness ==
  /\ th_out # None /\ Len(th_out[1].calls) >= 1
  /\ \/ Len(th_in.command_path) = 3 /\ th_in.format = "help-subcommand"
     \/ Len(th_in.command_path) = 1 /\ th_in.format = "subcommand-only"

\* ---------------------------------------------------------------- C17
InFlight == {i \in 1..Len(workers) : ~WorkerDone(workers[i])}

\* C17: never more than `concurrency` submitted tasks are unfinished, and a
\* wave never holds more than `concurrency` futures.
C17_ConcurrencyBound ==
  Cardinality(InFlight) <= concurrency /\ Len(futures) <= concurrency

\* C17 witness: a wave is full with every task of it still running, after an
\* item within the depth limit was popped and skipped in the same wave.
C17_Witness ==
  /\ Len(futures) = concurrency
  /\ \A j \in 1..Len(futures) : futures[j] \in InFlight
  /\ \E s \in skipped : s.wave = wave /\ s.depth <= max_depth

\* ---------------------------------------------------------------- C18
\* C18: every queue item that is a child of a processed node carries the
\* depth of that node plus one.
C18_ChildDepthPlusOne ==
  \A k \in 1..Len(queue) :
    \A w \in Workers :
      queue[k].name = ChildName(w.path, Last(queue[k].name)) =>
        queue[k].depth = w.depth + 1

\* ---------------------------------------------------------------- C19
\* C19: once fut.result() has re-raised a worker's error, build_tree is not
\* kept from raising it by workers that are still running, and a failed
\* build_tree has returned nothing.
C19_FatalImmediately ==
  /\ pc = "unwind" => InFlight = {}
  /\ pc = "failed" => result = None

\* ---------------------------------------------------------------- C20
\* the parse_command_help calls made so far, past their cache lookup
Parses ==
  {w.parse : w \in {x \in Workers : x.st = "parse" /\ x.parse.st # "lookup"}} \cup
  (IF rootp.st # "lookup" THEN {rootp} ELSE {})

\* C20: a call that found an entry under its key returned the deserialized
\* entry without running the parser, and no call that has an entry under its
\* key went on to the parser.
C20_HitSkipsParser ==
  \A p \in Parses :
    /\ p.hit => p.st = "finished" /\ p.invoked = 0 /\ p.doc = CacheLookup(p)
    /\ (CacheLookup(p) # None /\ p.invoked = 0) => p.hit

\* C20 witness: one node was answered from the cache while another node of
\* the same crawl went through the parser.
C20_Witness ==
  /\ \E p \in Parses : p.hit /\ p.invoked = 0 /\ p.path = <<RootCmd, "a">>
  /\ \E p \in Parses : ~p.hit /\ p.invoked > 0 /\ p.st = "finished"

\* ---------------------------------------------------------------- C21
\* the callers of parse_command_help whose call is past its cache lookup:
\* 0 for build_tree's root parse, i for the i-th submitted task
Callers ==
  {i \in 1..Len(workers) : workers[i].st = "parse" /\ workers[i].parse.st # "lookup"} \cup
  (IF rootp.st # "lookup" THEN {0} ELSE {})
ParseOf(b) == IF b = 0 THEN rootp ELSE workers[b].parse

\* C21: every call that returned a parsed document, from the cache or from
\* the parser, has written that document to the cache under its key.
C21_WrittenBack ==
  \A b \in Callers :
    (ParseOf(b).st = "finished" /\ ~Exhausted(ParseOf(b))) =>
      \E c \in cache_calls :
        /\ c.op = "set" /\ c.by = b
        /\ c.path = JoinPath(ParseOf(b).path) /\ c.data = ParseOf(b).doc

\* ---------------------------------------------------------------- C22
\* C22: every cache_get and cache_set of a crawl passes the version detected
\* for the tool, and a hit returns the entry stored under that version.
C22_KeyedByVersion ==
  /\ \A c \in cache_calls : c.version = version
  /\ \A b \in Callers :
       ParseOf(b).hit =>
         ParseCacheGet(cache, JoinPath(ParseOf(b).path), version, ModelName,
                       ParseOf(b).help_t) = ParseOf(b).doc

\* ---------------------------------------------------------------- C23
\* C23: with concurrency 1 at most one task is unfinished, a task is submitted
\* only when the result of every task popped before it has been recorded, and
\* tasks are submitted in breadth-first order.
C23_SequentialAtOne ==
  concurrency = 1 =>
    /\ Cardinality(InFlight) <= 1
    /\ \A i, j \in 1..Len(workers) :
         i < j => /\ WorkerDone(workers[i]) /\ workers[i].collected
                  /\ workers[i].path \in DOMAIN subdocs
                  /\ Len(workers[i].chain) <= Len(workers[j].chain)

\* C23 witness: a crawl with concurrency 1 returned after three tasks, the
\* last one for a grandchild of the root.
C23_Witness ==
  /\ concurrency = 1 /\ pc = "done"
  /\ Len(workers) >= 3
  /\ Len(workers[Len(workers)].chain) = 2

\* ---------------------------------------------------------------- C24
KeyOf(c) == KeyPath(c.path, c.version, c.model, Sha256(c.help))
WorkerSets == {c \in cache_calls : c.op = "set" /\ c.by >= 1}

\* C24: two cache writes made by different tasks of a crawl go to different
\* cache files.
C24_DistinctWriteKeys ==
  \A c1, c2 \in WorkerSets : c1.by # c2.by => KeyOf(c1) # KeyOf(c2)

\* C24 witness: two tasks of the same wave have both written to the cache.
C24_Witness ==
  \E c1, c2 \in WorkerSets :
    /\ c1.by # c2.by
    /\ workers[c1.by].wave = workers[c2.by].wave
    /\ c1.help = c2.help /\ c1.model = c2.model

\* ---------------------------------------------------------------- C25
\* C25: no step of a process_one task changes the work queue, the visited
\* set, the result map or the diagnostics counters.
C25_WorkersLeaveSchedulerState ==
  [][(\E i \in 1..Len(workers) : WorkerStart(i) \/ WorkerLookup(i) \/ WorkerInvoke(i)) =>
       UNCHANGED <<queue, visited, subdocs, diagnostics>>]_vars

\* C25 witness: a task has run its capture and cache lookup while the
\* scheduler was still popping items for the same wave.
C25_Witness ==
  /\ pc = "drain" /\ queue # <<>>
  /\ \E w \in Workers : w.wave = wave /\ w.st = "parse" /\ w.parse.st # "lookup"

\* ------------------------------------------ a crawl one level deeper
\* build_tree with max_depth one above the depths of Spec, concurrency 1, a
\* tool that prints help and an empty cache directory.
DeepInit ==
  /\ max_depth = MaxDepthBound + 1
  /\ concurrency = 1
  /\ use_cache = TRUE
  /\ accepts_provider \in Signatures
  /\ tool_help = "usage"
  /\ tool_version = <<"v", "2", ".", "3", ".", "1">>
  /\ parser_odd = 0
  /\ sub_help = SameHelp(tool_help)
  /\ cache = EmptyCache
  /\ pc = "resolve"
  /\ error = ""
  /\ help_text = ""
  /\ version = None
  /\ rootp = NoParse
  /\ visited = {}
  /\ queue = <<>>
  /\ futures = <<>>
  /\ workers = <<>>
  /\ subdocs = <<>>
  /\ diagnostics = [timeouts |-> 0, llm_retries |-> 0, visited_commands |-> 0,
                    version_extracted |-> FALSE]
  /\ result = None
  /\ wave = 0
  /\ reports = 0
  /\ flaky = {}
  /\ skipped = {}
  /\ bin_path = None
  /\ cache_dir = FALSE
  /\ ran = FALSE
  /\ cache_calls = {}
  /\ stored = <<>>
  /\ got = None
  /\ sets = 0
  /\ th_in = None
  /\ th_out = None
  /\ setter = None
  /\ getter = None

DeepSpec == DeepInit /\ [][Next]_vars

\* ---------------------------------------------------------------- C26
\* the chains of names a returned crawl has to have processed: the names the
\* root reported, and the names reported by every processed node whose own
\* chain is shorter than max_depth
DueChains ==
  (IF 1 <= max_depth
     THEN {<<rootp.doc[1].subcommands[i]>> : i \in 1..Len(rootp.doc[1].subcommands)}
     ELSE {})
  \cup UNION {{Append(w.chain, w.parse.doc[1].subcommands[i]) :
                 i \in 1..Len(w.parse.doc[1].subcommands)} :
              w \in {x \in Collected : Len(x.chain) < max_depth}}

\* C26: when the crawl has returned, every command reachable from the root
\* through at most max_depth reported names was processed by exactly one task
\* and its document is in the result map.
C26_Complete ==
  pc = "done" =>
    \A ch \in DueChains :
      /\ Cardinality({i \in 1..Len(workers) : workers[i].chain = ch}) = 1
      /\ \E w \in Collected : w.chain = ch /\ w.path \in DOMAIN subdocs

\* ---------------------------------------------------------------- C27
Min(a, b) == IF a <= b THEN a ELSE b

\* C27: a call that missed the cache and has returned ran the parser between
\* once and Retries + 1 times; every run before the last one failed and left
\* one reminder in the prompt; the call returned the fallback document when,
\* and only when, all Retries + 1 runs failed.
C27_RetryLoop ==
  \A b \in Callers :
    LET p == ParseOf(b)
    IN (p.st = "finished" /\ ~p.hit) =>
         /\ 1 <= p.invoked /\ p.invoked <= Retries + 1
         /\ p.failed \in {p.invoked - 1, p.invoked}
         /\ p.reminders = Min(p.failed, Retries)
         /\ (p.failed = p.invoked) = (p.invoked = Retries + 1 /\ p.failed = Retries + 1)
         /\ (p.doc[1] = FallbackDoc(p.path, p.help_t)) = (p.failed = Retries + 1)

\* C27 witness: a task's call succeeded on its last attempt, after Retries
\* failures and Retries reminders.
C27_Witness ==
  \E b \in Callers :
    /\ b >= 1 /\ ParseOf(b).st = "finished" /\ ParseOf(b).failed = Retries
    /\ ParseOf(b).invoked = Retries + 1 /\ ParseOf(b).reminders = Retries
    /\ ParseOf(b).doc[1] # FallbackDoc(ParseOf(b).path, ParseOf(b).help_t)

\* ---------------------------------------------------------------- C28
\* C28: a call that returned the fallback document made no cache_set, the
\* cache has no entry under its key, and a new call with the same path, model
\* and help text misses the cache and goes to the parser.
C28_FallbackNotCached ==
  \A b \in Callers :
    LET p == ParseOf(b)
    IN (p.st = "finished" /\ ~p.hit /\ Exhausted(p)) =>
         /\ ~\E c \in cache_calls : c.op = "set" /\ c.by = b
         /\ CacheLookup(p) = None
         /\ AfterLookup(NewParse(p.path, p.help_t)).st = "invoke"

\* C28 witness: a task's call fell back while the cache was in use and holds
\* the document of another node of the crawl.
C28_Witness ==
  /\ use_cache /\ cache # EmptyCache
  /\ \E b \in Callers :
       b >= 1 /\ ParseOf(b).st = "finished" /\ Exhausted(ParseOf(b))
  /\ \E c \in cache_calls : c.op = "set"

\* ---------------------------------------------------------------- C29
\* C29: no step lowers visited_commands, and when the crawl has returned the
\* counter is the number of entries of the result map, which is the size of
\* the visited set less the root.
C29_VisitedCounter ==
  /\ [][diagnostics'.visited_commands >= diagnostics.visited_commands]_vars
  /\ [](pc = "done" =>
          /\ result[1].diagnostics.visited_commands = Cardinality(DOMAIN subdocs)
          /\ Cardinality(DOMAIN subdocs) = Cardinality(visited) - 1)

\* C29 witness: a crawl returned with a count of three, after an item was
\* popped and skipped because its path had already been visited.
C29_Witness ==
  /\ pc = "done" /\ diagnostics.visited_commands = 3
  /\ \E s \in skipped : s.path \in visited

\* ------------------------------------- ParseCache.get racing ParseCache.set
\* Two threads (or two processes) share the cache directory: one is inside
\* ParseCache.set, the other inside ParseCache.get.  Their statements
\* interleave; each action below is one statement of cache.py.
\* setter is [key, data, st]: st is "open" (before line 82), "dump" (inside
\* the with block, json.dump writing through the buffered file object) or
\* "closed" (the with block was left).  getter is [key, st, ret, error, during]:
\* st is "exists" (before line 58), "load" (the test of line 58 was true) or
\* "returned"; ret is what get returned, error the exception it raised ("" when
\* none), during whether its last statement ran while the setter was between
\* open and close of the same file.
RaceKeys ==
  { [path |-> "tool a", version |-> None, model |-> "m1", help |-> "usage"],
    [path |-> "tool", version |-> None, model |-> "m1", help |-> "usage"] }

\* cache.py:56-57 and 80-81, the file of a key
RaceFile(k) == KeyPath(k.path, k.version, k.model, Sha256(k.help))

\* cache.py:82, open(p, "w"): the file is created, or cut to length zero.
OpenForWrite(files, p) ==
  [q \in DOMAIN files \cup {p} |-> IF q = p THEN <<>> ELSE files[q]]

\* json.load (cache.py:60) decodes a whole object.  A dump holds one member
\* per field and the closing brace after the last one, so a text that stops
\* earlier, the empty text included, raises JSONDecodeError.
Decodable(text) == Len(text) = Len(DocFields)

RaceInit ==
  /\ max_depth = 0
  /\ concurrency = 1
  /\ use_cache = TRUE
  /\ accepts_provider = SignatureOfCallers
  /\ tool_help = ""
  /\ tool_version = <<>>
  /\ parser_odd = 0
  /\ sub_help = SameHelp(tool_help)
  /\ \E k \in RaceKeys, e \in HarnessEntries :
       /\ cache \in {EmptyCache,
                     ParseCacheSet(EmptyCache, k.path, k.version, k.model, k.help, e)}
       /\ stored = [p \in DOMAIN cache |-> e]
  /\ pc = "race"
  /\ error = ""
  /\ help_text = ""
  /\ version = None
  /\ rootp = NoParse
  /\ visited = {}
  /\ queue = <<>>
  /\ futures = <<>>
  /\ workers = <<>>
  /\ subdocs = <<>>
  /\ diagnostics = [timeouts |-> 0, llm_retries |-> 0, visited_commands |-> 0,
                    version_extracted |-> FALSE]
  /\ result = None
  /\ wave = 0
  /\ reports = 0
  /\ flaky = {}
  /\ skipped = {}
  /\ bin_path = None
  /\ cache_dir = FALSE
  /\ ran = FALSE
  /\ cache_calls = {}
  /\ got = None
  /\ sets = 0
  /\ th_in = None
  /\ th_out = None
  /\ \E k \in RaceKeys, e \in HarnessEntries :
       setter = [key |-> k, data |-> e, st |-> "open"]
  /\ \E k \in RaceKeys :
       getter = [key |-> k, st |-> "exists", ret |-> None, error |-> "",
                 during |-> FALSE]

\* the setter is between open and close of the file the getter reads
MidSet == setter.st = "dump" /\ setter.key = getter.key

\* cache.py:82, entering the with block
SetOpen ==
  /\ pc = "race" /\ setter.st = "open"
  /\ cache' = OpenForWrite(cache, RaceFile(setter.key))
  /\ setter' = [setter EXCEPT !.st = "dump"]
  /\ UNCHANGED <<crawlVars, stored, got, sets, th_in, th_out, getter>>

\* cache.py:83, json.dump hands the text to the file object piece by piece and
\* the file object writes its buffer out whenever it is full: the file on disk
\* grows to a longer prefix of the text, which may be the whole text while
\* the setter is still inside the with block.
SetFlush ==
  /\ pc = "race" /\ setter.st = "dump"
  /\ LET p == RaceFile(setter.key)
         text == JsonDump(setter.data)
     IN \E n \in (Len(cache[p]) + 1)..Len(text) :
          cache' = [cache EXCEPT ![p] = SubSeq(text, 1, n)]
  /\ UNCHANGED <<crawlVars, stored, got, sets, th_in, th_out, setter, getter>>

\* cache.py:82-83, leaving the with block: close writes out what is left.
SetClose ==
  /\ pc = "race" /\ setter.st = "dump"
  /\ cache' = [cache EXCEPT ![RaceFile(setter.key)] = JsonDump(setter.data)]
  /\ setter' = [setter EXCEPT !.st = "closed"]
  /\ UNCHANGED <<crawlVars, stored, got, sets, th_in, th_out, getter>>

\* cache.py:58 and 61: os.path.exists(p), and `return None` when it is false
GetExists ==
  /\ pc = "race" /\ getter.st = "exists"
  /\ getter' = IF RaceFile(getter.key) \in DOMAIN cache
                 THEN [getter EXCEPT !.st = "load"]
                 ELSE [getter EXCEPT !.st = "returned", !.ret = None,
                                     !.during = MidSet]
  /\ UNCHANGED <<crawlVars, cache, stored, got, sets, th_in, th_out, setter>>

\* cache.py:59-60: open(p, "r") and json.load(f), which reads the file as it
\* is now and decodes it.  No file is ever removed, so the open succeeds.
GetLoad ==
  /\ pc = "race" /\ getter.st = "load"
  /\ LET text == cache[RaceFile(getter.key)]
     IN getter' = IF Decodable(text)
                    THEN [getter EXCEPT !.st = "returned",
                                        !.ret = Some(JsonLoad(text)),
                                        !.during = MidSet]
                    ELSE [getter EXCEPT !.st = "returned",
                                        !.error = "JSONDecodeError",
                                        !.during = MidSet]
  /\ UNCHANGED <<crawlVars, cache, stored, got, sets, th_in, th_out, setter>>

RaceNext == SetOpen \/ SetFlush \/ SetClose \/ GetExists \/ GetLoad

RaceSpec == RaceInit /\ [][RaceNext]_vars

\* ---------------------------------------------------------------- C30
\* C30: a get whose read fell between the open and the close of a set on the
\* same key raises nothing and returns a miss, the entry the file held before
\* the set, or the entry being stored.
C30_GetDuringSet ==
  (getter # None /\ getter.st = "returned" /\ getter.during) =>
    /\ getter.error = ""
    /\ \/ getter.ret = None
       \/ getter.ret = Some(setter.data)
       \/ \E p \in DOMAIN stored : getter.ret = Some(stored[p])

====
